---- MODULE Spec2Model ----
(***************************************************************************)
(* Locomotive simulator: the tick loop (runSimulation), the sampling       *)
(* policy (model.sendDataToPredix), the two delivery queues (AssetService, *)
(* TimeSeriesService) with their network callbacks, and the completion     *)
(* monitor (finishSimulation).                                             *)
(*                                                                         *)
(* Node runs every callback to completion, so one action is one callback:  *)
(* a tick, a POST response, a websocket event, a timer, the completion of  *)
(* a token acquisition, a poll of the completion monitor.                  *)
(***************************************************************************)
EXTENDS Integers, Sequences, FiniteSets, TLC

VARIABLES
    asset,          \* module state of asset_service.js and its pending callbacks
    ts,             \* module state of time_series_service.js and its pending callbacks
    numIterations,  \* simulator: iterations completed so far
    state,          \* simulator: the mass fields of the locomotive state
    exitCode,       \* simulator: the code passed to process.exit, NotExited while alive
    history,        \* simulator: model.history, key -> {prevTimeSent, numSends}
    simPhase,       \* simulator: "boot" | "starting" | "running" | "polling" |
                    \* "complete" | "exited"; in the specification of the
                    \* pipeline alone the process that runs next, or "applied"
    report,         \* the counters logged by finishSimulation
    usedIds,        \* Helper: number of ids handed out by getId; in the
                    \* specification of Helper alone the set of those ids
    faults,         \* environment: faults injected so far
    answering,      \* environment: the sinks that answer at all in this run
    configExists,   \* environment: ./config/predix_config.json exists
    enq,            \* history: every node ever pushed on a queue, in push order
    aAcked,         \* history: nodes of acknowledged POST bodies, in acknowledgement order
    tAcked,         \* history: nodes of acknowledged websocket messages, in order
    aFailSeq,       \* history: asset token requests issued before the latest POST failure
    tFailSeq        \* history: time series token requests issued before the latest socket error

vars == <<asset, ts, numIterations, state, exitCode, history, simPhase, report, usedIds,
          faults, answering, configExists, enq, aAcked, tAcked, aFailSeq, tFailSeq>>

----------------------------------------------------------------------------
(* Bounds and configuration *)

\* simulator_constants.js NUM_ITERATIONS, scaled down
NUM_ITERATIONS == 5

\* simulator_constants.js MAX_NUM_SENDS_PER_KEY, scaled down
MAX_NUM_SENDS_PER_KEY == 2

\* simulator_constants.js SEND_INTERVAL, in ticks of DT, scaled down
SEND_INTERVAL == 2

\* simulator_constants.js MAX_NODES_TO_QUEUE_PER_SEND, scaled down
MAX_NODES_TO_QUEUE_PER_SEND == 2

\* faults the environment may inject in one run once the simulation has started
\* (failed POSTs, socket errors, failed token refreshes)
MaxFaults == 1

\* simulator_constants.js FUEL_ADD_AMT, FUEL_BURN_AMT, MAX_FUEL_MASS_IN_FIRE_CHAMBER,
\* INITIAL_FUEL_MASS_IN_TENDER and LOCOMOTIVE_OWN_MASS, scaled down to small
\* whole numbers of one mass unit
FUEL_ADD_AMT == 2

FUEL_BURN_AMT == 1

MAX_FUEL_MASS_IN_FIRE_CHAMBER == 0

INITIAL_FUEL_MASS_IN_TENDER == 2

LOCOMOTIVE_OWN_MASS == 3

\* the largest fuel mass and the largest speed of the states that the processes
\* of the pipeline are applied to one by one
MaxMass == 3

MaxSpeed == 2

\* simulator_constants.js PRESSURE_MULTIPLIER, X1, X2 and X3, scaled down to whole
\* numbers
PRESSURE_MULTIPLIER == 2

X1 == 2

X2 == 1

X3 == 3

\* simulator_constants.js DT: time is measured in steps of DT
DT == 1

\* simulator_constants.js MAX_ALLOWED_PRESSURE, MAX_ALLOWED_SPEED and
\* MIN_ALLOWED_FUEL_MASS_IN_TENDER, scaled down
MAX_ALLOWED_PRESSURE == 3

MAX_ALLOWED_SPEED == 3

MIN_ALLOWED_FUEL_MASS_IN_TENDER == 0

\* Helper alone: the GUIDs that generateId can return, the payloads of the
\* nodes and the longest queue
MaxGuids == 3

MaxPayloads == 2

MaxQueue == 2

AlertKeys == {"pressure", "speed", "fuelMassInTender"}

TimeSeriesKey == "timeSeries"

Min(a, b) == IF a < b THEN a ELSE b

----------------------------------------------------------------------------
(* Helper (src/common/helper.js) *)

\* getId: a GUID never handed out before; the n-th id is n
GetId(used) == used + 1

\* setItemsInProgress without the limit of nodes per operation
SetItemsInProgress_All(queue) == queue

\* setItemsInProgress: the first MAX_NODES_TO_QUEUE_PER_SEND nodes of the queue
SetItemsInProgress(queue) ==
    SubSeq(queue, 1, Min(Len(queue), MAX_NODES_TO_QUEUE_PER_SEND))

\* getId on the GUIDs that generateId returns one call after the other: a GUID
\* in usedIds is dropped and getId calls itself again
RECURSIVE GetIdFrom(_, _)
GetIdFrom_NoCheck(draws, used) == Head(draws)

GetIdFrom(draws, used) ==
    IF Head(draws) \in used THEN GetIdFrom(Tail(draws), used) ELSE Head(draws)

\* removeProcessedItemsFromQueue: _.remove(queue, {key: item.key}) for each item
RemoveProcessedItemsFromQueue(queue, itemsInProgress) ==
    SelectSeq(queue, LAMBDA n : \A i \in 1..Len(itemsInProgress) :
                                    itemsInProgress[i].key # n.key)

\* a bearer token: the acquisition that produced it, and whether it is a real
\* token (ok) or the sentinel 'no_token'
Token(req, ok) == [req |-> req, ok |-> ok]

\* getPredixToken for acquisition req: the access token when the UAA client
\* resolves, the sentinel when it rejects; the catch block lets nothing escape
GetPredixToken(req, resolved) == IF resolved THEN Token(req, TRUE) ELSE Token(req, FALSE)

----------------------------------------------------------------------------
(* AssetService (src/services/asset_service.js) *)

\* constructor
AssetInit(tok) ==
    [queue |-> <<>>,
     isOperationInProgress |-> FALSE,
     itemsInProgress |-> <<>>,
     totSent |-> [k \in {} |-> 0],
     token |-> tok,
     posts |-> {},          \* POST requests sent and not yet answered
     postSeq |-> 0,         \* POST requests sent so far
     timers |-> 0,          \* pending setTimeout callbacks of handlePostResponse
     tokenReqs |-> {},      \* pending getPredixToken calls of those callbacks
     tokSeq |-> 0]          \* token acquisitions requested so far

\* Math.round(node.data.time * 1000): the time, counted in steps of DT here, in
\* thousandths of a step
Timestamp(time) == time * 1000

\* buildBody of the asset service: one object per node of itemsInProgress; the
\* uri is '/locomotive/' + key + '.' + timestamp
AssetBuildBody(items) ==
    [j \in 1..Len(items) |->
        [uri |-> <<"/locomotive/", items[j].data.key, Timestamp(items[j].data.time)>>,
         timestamp |-> Timestamp(items[j].data.time),
         name |-> items[j].data.key,
         val |-> items[j].data.val]]

\* processAssetData without its test of the flag
ProcessAssetData_NoGuard(s) ==
    LET items == SetItemsInProgress(s.queue) IN
    IF Len(items) = 0
    THEN [s EXCEPT !.isOperationInProgress = FALSE, !.itemsInProgress = items]
    ELSE [s EXCEPT !.isOperationInProgress = TRUE,
                   !.itemsInProgress = items,
                   !.postSeq = @ + 1,
                   !.posts = @ \cup {[seq |-> s.postSeq + 1,
                                      body |-> items,
                                      token |-> s.token]}]

\* processAssetData
ProcessAssetData(s) ==
    IF s.isOperationInProgress
    THEN s
    ELSE LET items == SetItemsInProgress(s.queue) IN
         IF Len(items) = 0
         THEN [s EXCEPT !.isOperationInProgress = FALSE, !.itemsInProgress = items]
         ELSE [s EXCEPT !.isOperationInProgress = TRUE,
                        !.itemsInProgress = items,
                        !.postSeq = @ + 1,
                        !.posts = @ \cup {[seq |-> s.postSeq + 1,
                                           body |-> items,
                                           token |-> s.token]}]

\* AssetService.sendDataToPredix
AssetSendDataToPredix(s, id, data) ==
    ProcessAssetData([s EXCEPT !.queue = Append(@, [key |-> id, data |-> data])])

\* totSent[key] is created at 0 on first use, then incremented
IncTotSent(tot, key) ==
    [k \in DOMAIN tot \cup {key} |->
        IF k = key THEN (IF k \in DOMAIN tot THEN tot[k] + 1 ELSE 1) ELSE tot[k]]

RECURSIVE CountItems(_, _)
CountItems(tot, items) ==
    IF Len(items) = 0 THEN tot
    ELSE CountItems(IncTotSent(tot, items[1].data.key), Tail(items))

\* handlePostResponse, failure branch: the answered POST p had an error or a
\* non-ok response
HandlePostResponseFail_Drop(s, p) ==
    [s EXCEPT !.posts = @ \ {p},
              !.isOperationInProgress = FALSE,
              !.queue = RemoveProcessedItemsFromQueue(@, s.itemsInProgress),
              !.timers = @ + 1]

HandlePostResponseFail(s, p) ==
    [s EXCEPT !.posts = @ \ {p},
              !.isOperationInProgress = FALSE,
              !.timers = @ + 1]

\* handlePostResponse, success branch
HandlePostResponseOk(s, p) ==
    LET s1 == [s EXCEPT !.posts = @ \ {p},
                        !.totSent = CountItems(@, s.itemsInProgress),
                        !.queue = RemoveProcessedItemsFromQueue(@, s.itemsInProgress),
                        !.isOperationInProgress = FALSE]
    IN  IF Len(s1.queue) # 0 THEN ProcessAssetData(s1) ELSE s1

\* the setTimeout callback of handlePostResponse, up to its await
AssetRetryTimer(s) ==
    [s EXCEPT !.timers = @ - 1,
              !.isOperationInProgress = FALSE,
              !.tokSeq = @ + 1,
              !.tokenReqs = @ \cup {s.tokSeq + 1}]

\* the same callback after its await: getPredixToken request r returned tok
AssetRetryResume_GiveUp(s, r, tok) ==
    IF tok.ok
    THEN ProcessAssetData([s EXCEPT !.tokenReqs = @ \ {r}, !.token = tok])
    ELSE [s EXCEPT !.tokenReqs = @ \ {r}]

AssetRetryResume(s, r, tok) ==
    ProcessAssetData([s EXCEPT !.tokenReqs = @ \ {r}, !.token = tok])

\* AssetService.isFinished
AssetIsFinished(s) == Len(s.queue) = 0 /\ ~s.isOperationInProgress

----------------------------------------------------------------------------
(* TimeSeriesService (src/services/time_series_service.js) *)

\* ws = undefined
Undefined == 0

\* constructor
TimeSeriesInit(tok) ==
    [queue |-> <<>>,
     isOperationInProgress |-> FALSE,
     itemsInProgress |-> <<>>,
     totSent |-> 0,
     token |-> tok,
     ws |-> Undefined,
     sockets |-> [i \in {} |-> 0],  \* websockets being opened or open (closed ones emit nothing)
     wsSeq |-> 0,           \* websockets created so far
     msgSeq |-> 0,          \* messages sent so far
     resumes |-> <<>>,      \* payloads of processTimeSeriesData calls whose await of
                            \* createWebSocket is resolved and that have not resumed yet
     timers |-> 0,          \* pending setTimeout callbacks of ws.onerror
     tokenReqs |-> {},      \* pending getPredixToken calls of those callbacks
     tokSeq |-> 0]          \* token acquisitions requested so far

\* tags: the names of the series, in the order of the array
Tags == <<"distance", "fuelMassBurning", "fuelMassInTender", "fuelMassInFireChamber",
          "pressure", "speed", "time">>

\* the datapoints that one pass over itemsInProgress pushes for tag; the data of
\* a node of this queue is a state of the simulator
Datapoints(tag, items) ==
    [j \in 1..Len(items) |->
        <<Timestamp(items[j].data.val.time), items[j].data.val[tag]>>]

\* buildBody of the time series service, from the tags still to be visited: the
\* element of the body with the tag's name is looked up, created when there is
\* none, and the datapoints are pushed onto it (the attributes of a tag are fixed)
RECURSIVE BuildBodyFrom(_, _, _)
BuildBodyFrom_LastOnly(tags, items, body) ==
    IF tags = <<>> THEN body
    ELSE BuildBodyFrom(Tail(tags), items,
             Append(body, [name |-> Head(tags),
                           datapoints |-> SubSeq(Datapoints(Head(tags), items),
                                                 Len(items), Len(items))]))

BuildBodyFrom(tags, items, body) ==
    IF tags = <<>> THEN body
    ELSE LET tag == Head(tags)
             found == {i \in 1..Len(body) : body[i].name = tag}
         IN  IF found = {}
             THEN BuildBodyFrom(Tail(tags), items,
                      Append(body, [name |-> tag, datapoints |-> Datapoints(tag, items)]))
             ELSE LET first == CHOOSE i \in found : \A k \in found : i <= k IN
                  BuildBodyFrom(Tail(tags), items,
                      [body EXCEPT ![first].datapoints = @ \o Datapoints(tag, items)])

TimeSeriesBuildBody(items) == BuildBodyFrom(Tags, items, <<>>)

\* ws.send(payload) inside the try block of processTimeSeriesData: it throws, and
\* the catch block only logs, when ws is undefined or not open
WsSend(s, payload) ==
    IF s.ws # Undefined /\ s.ws \in DOMAIN s.sockets /\ s.sockets[s.ws].state = "open"
    THEN [s EXCEPT !.sockets[s.ws].sent = Append(@, payload), !.msgSeq = @ + 1]
    ELSE s

\* createWebSocket up to the point where its promise is awaited: the socket is
\* created with the current token; waiter is the payload that the suspended
\* processTimeSeriesData sends once 'open' resolves the promise
CreateWebSocket(s, payload) ==
    LET id == s.wsSeq + 1 IN
    [s EXCEPT !.wsSeq = id,
              !.ws = id,
              !.sockets = [i \in DOMAIN s.sockets \cup {id} |->
                             IF i = id
                             THEN [state |-> "connecting", token |-> s.token,
                                   waiter |-> payload, sent |-> <<>>]
                             ELSE s.sockets[i]]]

\* processTimeSeriesData
ProcessTimeSeriesData(s) ==
    IF s.isOperationInProgress
    THEN s
    ELSE LET items == SetItemsInProgress(s.queue) IN
         IF Len(items) = 0
         THEN [s EXCEPT !.isOperationInProgress = FALSE, !.itemsInProgress = items]
         ELSE LET s1 == [s EXCEPT !.isOperationInProgress = TRUE,
                                  !.itemsInProgress = items]
              IN  IF s1.ws = Undefined
                  THEN CreateWebSocket(s1, items)
                  ELSE WsSend(s1, items)

\* TimeSeriesService.sendDataToPredix
TimeSeriesSendDataToPredix(s, id, data) ==
    ProcessTimeSeriesData([s EXCEPT !.queue = Append(@, [key |-> id, data |-> data])])

\* the socket leaves the set of live sockets
DropSocket(s, id) ==
    [s EXCEPT !.sockets = [i \in DOMAIN s.sockets \ {id} |-> s.sockets[i]]]

\* ws.on('open') of socket id: it resolves the promise of createWebSocket; the
\* bluebird promise wakes the awaiting processTimeSeriesData in a later turn
WsOnOpen(s, id) ==
    [s EXCEPT !.sockets[id].state = "open",
              !.sockets[id].waiter = <<>>,
              !.resumes = Append(@, s.sockets[id].waiter)]

\* processTimeSeriesData after its await: ws.send on whatever ws is by now
ProcessTimeSeriesDataResume(s) ==
    WsSend([s EXCEPT !.resumes = Tail(@)], Head(s.resumes))

\* ws.onmessage that closes the socket after every acknowledgement
WsOnMessage_AlwaysClose(s, id) ==
    LET s1 == [s EXCEPT !.totSent = @ + Len(s.itemsInProgress),
                        !.queue = RemoveProcessedItemsFromQueue(@, s.itemsInProgress),
                        !.isOperationInProgress = FALSE]
        s2 == IF s1.ws = Undefined THEN s1
              ELSE [DropSocket(s1, s1.ws) EXCEPT !.ws = Undefined]
    IN  IF Len(s2.queue) # 0 THEN ProcessTimeSeriesData(s2) ELSE s2

\* ws.onmessage of socket id: the sink acknowledged the oldest message sent on it
WsOnMessage(s, id) ==
    LET s1 == [s EXCEPT !.sockets[id].sent = Tail(@),
                        !.totSent = @ + Len(s.itemsInProgress),
                        !.queue = RemoveProcessedItemsFromQueue(@, s.itemsInProgress),
                        !.isOperationInProgress = FALSE]
    IN  IF Len(s1.queue) # 0
        THEN ProcessTimeSeriesData(s1)
        ELSE IF s1.ws = Undefined THEN s1
             ELSE [DropSocket(s1, s1.ws) EXCEPT !.ws = Undefined]

\* ws.onclose of socket id: it only logs; the socket is dead, and ws still
\* refers to it
WsOnClose(s, id) == DropSocket(s, id)

\* ws.onerror of socket id; the socket is dead afterwards
WsOnError_Clear(s, id) ==
    [DropSocket(s, id) EXCEPT !.ws = Undefined, !.timers = @ + 1,
                              !.isOperationInProgress = FALSE]

\* ws.onerror that keeps the reference to the failed socket
WsOnError_KeepWs(s, id) ==
    [DropSocket(s, id) EXCEPT !.timers = @ + 1]

WsOnError(s, id) ==
    [DropSocket(s, id) EXCEPT !.ws = Undefined, !.timers = @ + 1]

\* the setTimeout callback of ws.onerror, up to its await
TimeSeriesRetryTimer_KeepFlag(s) ==
    [s EXCEPT !.timers = @ - 1,
              !.tokSeq = @ + 1,
              !.tokenReqs = @ \cup {s.tokSeq + 1}]

TimeSeriesRetryTimer(s) ==
    [s EXCEPT !.timers = @ - 1,
              !.isOperationInProgress = FALSE,
              !.tokSeq = @ + 1,
              !.tokenReqs = @ \cup {s.tokSeq + 1}]

\* the same callback after its await: getPredixToken request r returned tok
TimeSeriesRetryResume(s, r, tok) ==
    ProcessTimeSeriesData([s EXCEPT !.tokenReqs = @ \ {r}, !.token = tok])

\* TimeSeriesService.isFinished
TimeSeriesIsFinished(s) == Len(s.queue) = 0 /\ ~s.isOperationInProgress

----------------------------------------------------------------------------
(* Simulator (src/unnamed/part_000) *)

\* the gate of model.sendDataToPredix; time is counted in ticks of DT, and EPS is
\* far below one tick, so timeDiff + EPS >= SEND_INTERVAL is timeDiff >= SEND_INTERVAL
ShouldSend_Inclusive(h, key, time) ==
    LET numSends == IF key \in DOMAIN h THEN h[key].numSends ELSE 0
        timeDiff == IF key \in DOMAIN h THEN time - h[key].prevTimeSent ELSE -1
    IN  numSends <= MAX_NUM_SENDS_PER_KEY
        /\ (timeDiff = -1 \/ timeDiff >= SEND_INTERVAL)

ShouldSend_NoInterval(h, key, time) ==
    LET numSends == IF key \in DOMAIN h THEN h[key].numSends ELSE 0
    IN  numSends < MAX_NUM_SENDS_PER_KEY

ShouldSend(h, key, time) ==
    LET numSends == IF key \in DOMAIN h THEN h[key].numSends ELSE 0
        timeDiff == IF key \in DOMAIN h THEN time - h[key].prevTimeSent ELSE -1
    IN  numSends < MAX_NUM_SENDS_PER_KEY
        /\ (timeDiff = -1 \/ timeDiff >= SEND_INTERVAL)

\* the history update of model.sendDataToPredix
UpdateHistory_NoCount(h, key, time) ==
    [k \in DOMAIN h \cup {key} |->
        IF k = key
        THEN [prevTimeSent |-> time,
              numSends |-> IF k \in DOMAIN h THEN h[k].numSends ELSE 1]
        ELSE h[k]]

UpdateHistory(h, key, time) ==
    [k \in DOMAIN h \cup {key} |->
        IF k = key
        THEN [prevTimeSent |-> time,
              numSends |-> IF k \in DOMAIN h THEN h[k].numSends + 1 ELSE 1]
        ELSE h[k]]

\* model.sendDataToPredix on the bundle b = [state, asset, ts, history, usedIds,
\* enq]: state is the module variable the gate and the history read the time
\* from, data is what the caller hands over
SendDataToPredix_Touch(b, key, data) ==
    IF ~ShouldSend(b.history, key, b.state.time)
    THEN [b EXCEPT !.history = UpdateHistory_NoCount(b.history, key, b.state.time)]
    ELSE LET id == GetId(b.usedIds) IN
         [b EXCEPT !.asset = IF key = TimeSeriesKey THEN @
                             ELSE AssetSendDataToPredix(@, id, data),
                   !.ts = IF key = TimeSeriesKey
                          THEN TimeSeriesSendDataToPredix(@, id, data)
                          ELSE @,
                   !.history = UpdateHistory(@, key, b.state.time),
                   !.usedIds = id,
                   !.enq = Append(@, [key |-> id, data |-> data])]

SendDataToPredix(b, key, data) ==
    IF ~ShouldSend(b.history, key, b.state.time)
    THEN b
    ELSE LET id == GetId(b.usedIds) IN
         [b EXCEPT !.asset = IF key = TimeSeriesKey THEN @
                             ELSE AssetSendDataToPredix(@, id, data),
                   !.ts = IF key = TimeSeriesKey
                          THEN TimeSeriesSendDataToPredix(@, id, data)
                          ELSE @,
                   !.history = UpdateHistory(@, key, b.state.time),
                   !.usedIds = id,
                   !.enq = Append(@, [key |-> id, data |-> data])]

\* model.toTimeSeries: the data is the state itself, filed under the key of the
\* time series
ToTimeSeries(b, st) ==
    SendDataToPredix(b, TimeSeriesKey, [key |-> TimeSeriesKey, val |-> st, time |-> st.time])

\* model.toAsset with a time that does not advance
ToAsset_NoTime(b, key, val) ==
    SendDataToPredix(b, key, [key |-> key, val |-> val, time |-> 0])

\* model.toAsset: the alert {key, val, time, msg}; the time is that of the module
\* variable state, and msg is fixed by the key
ToAsset(b, key, val) ==
    SendDataToPredix(b, key, [key |-> key, val |-> val, time |-> b.state.time])

\* the threshold tests of model.onStateChange
PressureExceeded(st) == st.pressure > MAX_ALLOWED_PRESSURE

SpeedExceeded(st) == st.speed > MAX_ALLOWED_SPEED

FuelTooLow_Inclusive(st) == st.fuelMassInTender <= MIN_ALLOWED_FUEL_MASS_IN_TENDER

FuelTooLow(st) == st.fuelMassInTender < MIN_ALLOWED_FUEL_MASS_IN_TENDER

\* model.onStateChange.forEach(func => func(state)), in order: toTimeSeries, then
\* the alert of each threshold that the state violates
OnStateChange(b) ==
    LET st == b.state
        b0 == ToTimeSeries(b, st)
        b1 == IF PressureExceeded(st) THEN ToAsset(b0, "pressure", st.pressure) ELSE b0
        b2 == IF SpeedExceeded(st) THEN ToAsset(b1, "speed", st.speed) ELSE b1
    IN  IF FuelTooLow(st)
        THEN ToAsset(b2, "fuelMassInTender", st.fuelMassInTender) ELSE b2

Max(a, b) == IF a > b THEN a ELSE b

Abs(a) == IF a < 0 THEN -a ELSE a

\* model.state
InitialState ==
    [distance |-> 0,
     fuelMassBurning |-> 0,
     fuelMassInTender |-> INITIAL_FUEL_MASS_IN_TENDER,
     fuelMassInFireChamber |-> 0,
     locomotiveOwnMass |-> LOCOMOTIVE_OWN_MASS,
     pressure |-> 0,
     speed |-> 0,
     time |-> 0]

\* processes[0], the Fireman
Fireman_AddOnly(st) ==
    IF st.fuelMassInTender < 0 \/ st.fuelMassInFireChamber > MAX_FUEL_MASS_IN_FIRE_CHAMBER
    THEN st
    ELSE [st EXCEPT !.fuelMassInFireChamber = @ + FUEL_ADD_AMT]

Fireman_NoTenderGuard(st) ==
    IF st.fuelMassInFireChamber > MAX_FUEL_MASS_IN_FIRE_CHAMBER
    THEN st
    ELSE [st EXCEPT !.fuelMassInTender = @ - FUEL_ADD_AMT,
                    !.fuelMassInFireChamber = @ + FUEL_ADD_AMT]

Fireman(st) ==
    IF st.fuelMassInTender < 0 \/ st.fuelMassInFireChamber > MAX_FUEL_MASS_IN_FIRE_CHAMBER
    THEN st
    ELSE [st EXCEPT !.fuelMassInTender = @ - FUEL_ADD_AMT,
                    !.fuelMassInFireChamber = @ + FUEL_ADD_AMT]

\* processes[1], the Fire Chamber
FireChamber_PressureAfterBurn(st) ==
    LET burning == IF st.fuelMassBurning < st.fuelMassInFireChamber
                   THEN Min(st.fuelMassInFireChamber, FUEL_ADD_AMT + st.fuelMassBurning)
                   ELSE st.fuelMassBurning
    IN  [st EXCEPT !.pressure = PRESSURE_MULTIPLIER * Max(0, burning - FUEL_BURN_AMT),
                   !.fuelMassBurning = Max(0, burning - FUEL_BURN_AMT),
                   !.fuelMassInFireChamber = Max(0, @ - FUEL_BURN_AMT)]

\* the Fire Chamber igniting FUEL_ADD_AMT more, whatever the chamber holds
FireChamber_NoCap(st) ==
    LET burning == IF st.fuelMassBurning < st.fuelMassInFireChamber
                   THEN FUEL_ADD_AMT + st.fuelMassBurning
                   ELSE st.fuelMassBurning
    IN  [st EXCEPT !.pressure = PRESSURE_MULTIPLIER * burning,
                   !.fuelMassBurning = Max(0, burning - FUEL_BURN_AMT),
                   !.fuelMassInFireChamber = Max(0, @ - FUEL_BURN_AMT)]

FireChamber(st) ==
    LET burning == IF st.fuelMassBurning < st.fuelMassInFireChamber
                   THEN Min(st.fuelMassInFireChamber, FUEL_ADD_AMT + st.fuelMassBurning)
                   ELSE st.fuelMassBurning
    IN  [st EXCEPT !.pressure = PRESSURE_MULTIPLIER * burning,
                   !.fuelMassBurning = Max(0, burning - FUEL_BURN_AMT),
                   !.fuelMassInFireChamber = Max(0, @ - FUEL_BURN_AMT)]

\* the divisor of the acceleration in processes[2], Movement
Mass(st) == st.locomotiveOwnMass + st.fuelMassInTender + st.fuelMassInFireChamber

\* the quotient of the acceleration, in whole units (rounded down); JavaScript
\* yields no number for a zero divisor, and the mass is never zero in a run
Quotient(n, m) == IF m = 0 THEN 0 ELSE n \div m

\* the acceleration of Movement before the dead zone is applied
RawAcceleration(st) == Quotient((X1 * st.pressure) - (X2 * st.speed), Mass(st))

\* the acceleration of Movement
Acceleration(st) ==
    IF st.speed = 0 /\ Abs(RawAcceleration(st)) < X3 THEN 0 ELSE RawAcceleration(st)

\* processes[2], Movement
Movement_NewSpeed(st) ==
    [st EXCEPT !.speed = @ + (DT * Acceleration(st)),
               !.distance = @ + (DT * (st.speed + (DT * Acceleration(st)))),
               !.time = @ + DT]

Movement_NoDeadZone(st) ==
    [st EXCEPT !.speed = @ + (DT * RawAcceleration(st)),
               !.distance = @ + (DT * st.speed),
               !.time = @ + DT]

Movement(st) ==
    [st EXCEPT !.speed = @ + (DT * Acceleration(st)),
               !.distance = @ + (DT * st.speed),
               !.time = @ + DT]

\* model.processes.forEach in runSimulation
TransferFunctions(st) == Movement(FireChamber(Fireman(st)))

NoReport == [emitted |-> FALSE]

\* finishSimulation: the next phase and the report
FinishSimulation(a, t) ==
    IF TimeSeriesIsFinished(t) /\ AssetIsFinished(a)
    THEN [phase |-> "complete",
          report |-> [emitted |-> TRUE, timeSeries |-> t.totSent, asset |-> a.totSent]]
    ELSE [phase |-> "polling", report |-> NoReport]

----------------------------------------------------------------------------
(* Initial state: the simulator module is loaded, nothing has run yet. The
   module variables of the two services are undefined until the constructors
   run, and nothing reads them before; they are shown as constructed with no
   token *)

\* exitCode while the process has not called process.exit
NotExited == -1

\* the token variable of a service before its constructor has run
NoToken == Token(-1, FALSE)

Sinks == {"asset", "timeSeries"}

InitWith(sinks) ==
    \E exists \in BOOLEAN :
        /\ answering = sinks
        /\ configExists = exists
        /\ exitCode = NotExited
        /\ asset = AssetInit(NoToken)
        /\ ts = TimeSeriesInit(NoToken)
        /\ faults = 0
        /\ numIterations = 0
        /\ state = InitialState
        /\ history = [k \in {} |-> 0]
        /\ simPhase = "boot"
        /\ report = NoReport
        /\ usedIds = 0
        /\ enq = <<>>
        /\ aAcked = <<>>
        /\ tAcked = <<>>
        /\ aFailSeq = -1
        /\ tFailSeq = -1

\* both sinks answer
Init == InitWith(Sinks)

\* one sink answers and the other one never does: each queue on its own
InitOneSink == \E sink \in Sinks : InitWith({sink})

\* the states that the processes are applied to one by one: any fuel masses, a
\* tender that may be overdrawn, a locomotive at rest or moving
PipelineStates ==
    [distance : {0},
     fuelMassBurning : 0..MaxMass,
     fuelMassInTender : (0 - FUEL_ADD_AMT)..MaxMass,
     fuelMassInFireChamber : 0..MaxMass,
     locomotiveOwnMass : {LOCOMOTIVE_OWN_MASS},
     pressure : {0, PRESSURE_MULTIPLIER},
     speed : 0..MaxSpeed,
     time : {0}]

\* the pipeline alone: model.processes is about to be applied to a state, tick
\* after tick
InitPipeline ==
    /\ state \in PipelineStates
    /\ simPhase = "Fireman"
    /\ answering = {}
    /\ configExists = TRUE
    /\ exitCode = NotExited
    /\ asset = AssetInit(NoToken)
    /\ ts = TimeSeriesInit(NoToken)
    /\ faults = 0
    /\ numIterations = 0
    /\ history = [k \in {} |-> 0]
    /\ report = NoReport
    /\ usedIds = 0
    /\ enq = <<>>
    /\ aAcked = <<>>
    /\ tAcked = <<>>
    /\ aFailSeq = -1
    /\ tFailSeq = -1

AssetEnq == SelectSeq(enq, LAMBDA n : n.data.key # TimeSeriesKey)

TimeSeriesEnq == SelectSeq(enq, LAMBDA n : n.data.key = TimeSeriesKey)

----------------------------------------------------------------------------
(* Actions *)

\* the module body of the simulator: the check for the configuration file,
\* then the first call of runSimulation up to its await of getPredixToken
Startup_NoCheck ==
    /\ simPhase = "boot"
    /\ simPhase' = "starting"
    /\ UNCHANGED <<asset, ts, numIterations, state, exitCode, history, report, usedIds,
                   faults, answering, configExists, enq, aAcked, tAcked, aFailSeq,
                   tFailSeq>>

Startup ==
    /\ simPhase = "boot"
    /\ IF ~configExists
       THEN simPhase' = "exited" /\ exitCode' = 1
       ELSE simPhase' = "starting" /\ UNCHANGED exitCode
    /\ UNCHANGED <<asset, ts, numIterations, state, history, report, usedIds, faults,
                   answering, configExists, enq, aAcked, tAcked, aFailSeq, tFailSeq>>

\* runSimulation from the check of numIterations on, had the pipeline waited for
\* the asset queue
RunSimulationTick_WaitForSink(a, t) ==
    IF numIterations >= NUM_ITERATIONS
    THEN /\ simPhase' = FinishSimulation(a, t).phase
         /\ report' = FinishSimulation(a, t).report
         /\ asset' = a
         /\ ts' = t
         /\ UNCHANGED <<numIterations, state, history, usedIds, enq>>
    ELSE LET b == OnStateChange([state |-> state', asset |-> a, ts |-> t,
                                 history |-> history, usedIds |-> usedIds, enq |-> enq])
         IN  /\ numIterations' = numIterations + 1
             /\ state' = IF a.isOperationInProgress
                         THEN [state EXCEPT !.time = @ + DT]
                         ELSE TransferFunctions(state)
             /\ asset' = b.asset
             /\ ts' = b.ts
             /\ history' = b.history
             /\ usedIds' = b.usedIds
             /\ enq' = b.enq
             /\ simPhase' = "running"
             /\ UNCHANGED report

\* runSimulation from the check of numIterations on, with the services a and t:
\* the hand-over to finishSimulation once NUM_ITERATIONS ticks are done, or one
\* tick of the loop
RunSimulationTick(a, t) ==
    IF numIterations >= NUM_ITERATIONS
    THEN /\ simPhase' = FinishSimulation(a, t).phase
         /\ report' = FinishSimulation(a, t).report
         /\ asset' = a
         /\ ts' = t
         /\ UNCHANGED <<numIterations, state, history, usedIds, enq>>
    ELSE LET b == OnStateChange([state |-> state', asset |-> a, ts |-> t,
                                 history |-> history, usedIds |-> usedIds, enq |-> enq])
         IN  /\ numIterations' = numIterations + 1
             /\ state' = TransferFunctions(state)
             /\ asset' = b.asset
             /\ ts' = b.ts
             /\ history' = b.history
             /\ usedIds' = b.usedIds
             /\ enq' = b.enq
             /\ simPhase' = "running"
             /\ UNCHANGED report

\* the first call of runSimulation after its await: getPredixToken returned a
\* token or the sentinel; the services are constructed with it and the call
\* goes on with its first tick
RunSimulationStart ==
    /\ simPhase = "starting"
    /\ \E ok \in BOOLEAN :
          RunSimulationTick(AssetInit(GetPredixToken(0, ok)),
                            TimeSeriesInit(GetPredixToken(0, ok)))
    /\ UNCHANGED <<exitCode, faults, answering, configExists, aAcked, tAcked, aFailSeq,
                   tFailSeq>>

\* a later call of runSimulation, scheduled by process.nextTick
RunSimulation_Blocking ==
    /\ simPhase = "running"
    /\ asset.posts = {} /\ DOMAIN ts.sockets = {}
    /\ RunSimulationTick(asset, ts)
    /\ UNCHANGED <<exitCode, faults, answering, configExists, aAcked, tAcked, aFailSeq,
                   tFailSeq>>

RunSimulation ==
    /\ simPhase = "running"
    /\ RunSimulationTick(asset, ts)
    /\ UNCHANGED <<exitCode, faults, answering, configExists, aAcked, tAcked, aFailSeq,
                   tFailSeq>>

\* the 350 ms timer of finishSimulation
FinishSimulationPoll ==
    /\ simPhase = "polling"
    /\ simPhase' = FinishSimulation(asset, ts).phase
    /\ report' = FinishSimulation(asset, ts).report
    /\ UNCHANGED <<asset, ts, numIterations, history, usedIds, faults, answering, enq,
                   state, exitCode, configExists,
                   aAcked, tAcked, aFailSeq, tFailSeq>>

\* the sink answers POST p with an ok response
AssetPostOk(p) ==
    /\ p \in asset.posts
    /\ p.token.ok
    /\ asset' = HandlePostResponseOk(asset, p)
    /\ aAcked' = aAcked \o p.body
    /\ UNCHANGED <<ts, numIterations, history, simPhase, report, usedIds, faults, answering, enq,
                   state, exitCode, configExists,
                   tAcked, aFailSeq, tFailSeq>>

\* POST p ends with an error or a non-ok response (always so with the sentinel
\* as bearer token)
AssetPostFail(p) ==
    /\ p \in asset.posts
    /\ faults < MaxFaults \/ ~p.token.ok
    /\ asset' = HandlePostResponseFail(asset, p)
    /\ faults' = IF p.token.ok THEN faults + 1 ELSE faults
    /\ aFailSeq' = asset.tokSeq
    /\ UNCHANGED <<ts, numIterations, history, simPhase, report, usedIds, answering, enq,
                   state, exitCode, configExists,
                   aAcked, tAcked, tFailSeq>>

\* WAIT_SECONDS_BETWEEN_FAILED_REQUESTS after a failed POST
AssetTimer ==
    /\ asset.timers > 0
    /\ asset' = AssetRetryTimer(asset)
    /\ UNCHANGED <<ts, numIterations, history, simPhase, report, usedIds, faults, answering, enq,
                   state, exitCode, configExists,
                   aAcked, tAcked, aFailSeq, tFailSeq>>

\* a getPredixToken call of the asset service returns (a token or the sentinel)
AssetToken(r, ok) ==
    /\ r \in asset.tokenReqs
    /\ ok \/ faults < MaxFaults
    /\ asset' = AssetRetryResume(asset, r, GetPredixToken(r, ok))
    /\ faults' = IF ok THEN faults ELSE faults + 1
    /\ UNCHANGED <<ts, numIterations, history, simPhase, report, usedIds, answering, enq,
                   state, exitCode, configExists,
                   aAcked, tAcked, aFailSeq, tFailSeq>>

\* the handshake of websocket id succeeds
TimeSeriesOpen(id) ==
    /\ id \in DOMAIN ts.sockets
    /\ ts.sockets[id].state = "connecting"
    /\ ts.sockets[id].token.ok
    /\ ts' = WsOnOpen(ts, id)
    /\ UNCHANGED <<asset, numIterations, history, simPhase, report, usedIds, faults, answering, enq,
                   state, exitCode, configExists,
                   aAcked, tAcked, aFailSeq, tFailSeq>>

\* the sink acknowledges the oldest unacknowledged message of websocket id
TimeSeriesMessage(id) ==
    /\ id \in DOMAIN ts.sockets
    /\ ts.sockets[id].state = "open"
    /\ Len(ts.sockets[id].sent) > 0
    /\ ts' = WsOnMessage(ts, id)
    /\ tAcked' = tAcked \o Head(ts.sockets[id].sent)
    /\ UNCHANGED <<asset, numIterations, history, simPhase, report, usedIds, faults, answering, enq,
                   state, exitCode, configExists,
                   aAcked, aFailSeq, tFailSeq>>

\* websocket id reports an error (always so when the handshake carries the sentinel)
TimeSeriesError(id) ==
    /\ id \in DOMAIN ts.sockets
    /\ faults < MaxFaults \/ ~ts.sockets[id].token.ok
    /\ ts' = WsOnError(ts, id)
    /\ faults' = IF ts.sockets[id].token.ok THEN faults + 1 ELSE faults
    /\ tFailSeq' = ts.tokSeq
    /\ UNCHANGED <<asset, numIterations, history, simPhase, report, usedIds, answering, enq,
                   state, exitCode, configExists,
                   aAcked, tAcked, aFailSeq>>

\* the processTimeSeriesData call awaiting the websocket resumes
TimeSeriesResume ==
    /\ Len(ts.resumes) > 0
    /\ ts' = ProcessTimeSeriesDataResume(ts)
    /\ UNCHANGED <<asset, numIterations, history, simPhase, report, usedIds, faults, answering, enq,
                   state, exitCode, configExists,
                   aAcked, tAcked, aFailSeq, tFailSeq>>

\* WAIT_SECONDS_BETWEEN_FAILED_REQUESTS after a socket error; a resolved await
\* resumes within the same turn of the event loop, long before
TimeSeriesTimer ==
    /\ ts.timers > 0
    /\ Len(ts.resumes) = 0
    /\ ts' = TimeSeriesRetryTimer(ts)
    /\ UNCHANGED <<asset, numIterations, history, simPhase, report, usedIds, faults, answering, enq,
                   state, exitCode, configExists,
                   aAcked, tAcked, aFailSeq, tFailSeq>>

\* a getPredixToken call of the time series service returns
TimeSeriesToken(r, ok) ==
    /\ r \in ts.tokenReqs
    /\ ok \/ faults < MaxFaults
    /\ ts' = TimeSeriesRetryResume(ts, r, GetPredixToken(r, ok))
    /\ faults' = IF ok THEN faults ELSE faults + 1
    /\ UNCHANGED <<asset, numIterations, history, simPhase, report, usedIds, answering, enq,
                   state, exitCode, configExists,
                   aAcked, tAcked, aFailSeq, tFailSeq>>

AssetResponse ==
    /\ "asset" \in answering
    /\ \E p \in asset.posts : AssetPostOk(p) \/ AssetPostFail(p)

AssetTokenDone == \E r \in asset.tokenReqs, ok \in BOOLEAN : AssetToken(r, ok)

TimeSeriesEvent ==
    /\ "timeSeries" \in answering
    /\ \E id \in DOMAIN ts.sockets :
          TimeSeriesOpen(id) \/ TimeSeriesMessage(id) \/ TimeSeriesError(id)

TimeSeriesTokenDone == \E r \in ts.tokenReqs, ok \in BOOLEAN : TimeSeriesToken(r, ok)

Next ==
    \/ Startup
    \/ RunSimulationStart
    \/ RunSimulation
    \/ FinishSimulationPoll
    \/ AssetResponse
    \/ AssetTimer
    \/ AssetTokenDone
    \/ TimeSeriesEvent
    \/ TimeSeriesResume
    \/ TimeSeriesTimer
    \/ TimeSeriesTokenDone

Spec == Init /\ [][Next]_vars

\* ++numIterations and model.processes.forEach, one process at a time
ApplyFireman ==
    /\ simPhase = "Fireman"
    /\ numIterations' = numIterations + 1
    /\ state' = Fireman(state)
    /\ simPhase' = "Fire Chamber"
    /\ UNCHANGED <<asset, ts, exitCode, history, report, usedIds, faults, answering,
                   configExists, enq, aAcked, tAcked, aFailSeq, tFailSeq>>

ApplyFireChamber ==
    /\ simPhase = "Fire Chamber"
    /\ state' = FireChamber(state)
    /\ simPhase' = "Movement"
    /\ UNCHANGED <<asset, ts, numIterations, exitCode, history, report, usedIds, faults,
                   answering, configExists, enq, aAcked, tAcked, aFailSeq, tFailSeq>>

ApplyMovement ==
    /\ simPhase = "Movement"
    /\ state' = Movement(state)
    /\ simPhase' = IF numIterations >= NUM_ITERATIONS THEN "applied" ELSE "Fireman"
    /\ UNCHANGED <<asset, ts, numIterations, exitCode, history, report, usedIds, faults,
                   answering, configExists, enq, aAcked, tAcked, aFailSeq, tFailSeq>>

NextPipeline == ApplyFireman \/ ApplyFireChamber \/ ApplyMovement

PipelineSpec == InitPipeline /\ [][NextPipeline]_vars

\* Helper alone: getId, setItemsInProgress and removeProcessedItemsFromQueue on
\* the two queues, with a generateId that may repeat itself
Guids == 1..MaxGuids

Payloads == 1..MaxPayloads

\* what generateId returns during one getId: a new GUID, or one handed out
\* before and then a new one
Draws(used) ==
    {<<d>> : d \in Guids \ used} \cup {<<c, d>> : c \in used, d \in Guids \ used}

InitHelper ==
    /\ usedIds = {}
    /\ simPhase = "boot"
    /\ answering = {}
    /\ configExists = TRUE
    /\ exitCode = NotExited
    /\ asset = AssetInit(NoToken)
    /\ ts = TimeSeriesInit(NoToken)
    /\ state = InitialState
    /\ faults = 0
    /\ numIterations = 0
    /\ history = [k \in {} |-> 0]
    /\ report = NoReport
    /\ enq = <<>>
    /\ aAcked = <<>>
    /\ tAcked = <<>>
    /\ aFailSeq = -1
    /\ tFailSeq = -1

\* queue.push({ key: Helper.getId(), data }) of AssetService.sendDataToPredix;
\* faults counts the duplicates that generateId returned
HelperPushAsset ==
    /\ Len(asset.queue) < MaxQueue
    /\ \E draws \in Draws(usedIds), d \in Payloads :
          LET id == GetIdFrom(draws, usedIds) IN
          /\ asset' = [asset EXCEPT !.queue = Append(@, [key |-> id, data |-> d])]
          /\ usedIds' = usedIds \cup {id}
          /\ faults' = faults + Len(draws) - 1
    /\ UNCHANGED <<ts, numIterations, state, exitCode, history, simPhase, report,
                   answering, configExists, enq, aAcked, tAcked, aFailSeq, tFailSeq>>

\* queue.push({ key: Helper.getId(), data }) of TimeSeriesService.sendDataToPredix
HelperPushTimeSeries ==
    /\ Len(ts.queue) < MaxQueue
    /\ \E draws \in Draws(usedIds), d \in Payloads :
          LET id == GetIdFrom(draws, usedIds) IN
          /\ ts' = [ts EXCEPT !.queue = Append(@, [key |-> id, data |-> d])]
          /\ usedIds' = usedIds \cup {id}
          /\ faults' = faults + Len(draws) - 1
    /\ UNCHANGED <<asset, numIterations, state, exitCode, history, simPhase, report,
                   answering, configExists, enq, aAcked, tAcked, aFailSeq, tFailSeq>>

\* itemsInProgress = []; Helper.setItemsInProgress(queue, itemsInProgress)
HelperSetItemsAsset ==
    /\ asset' = [asset EXCEPT !.itemsInProgress = SetItemsInProgress(asset.queue)]
    /\ UNCHANGED <<ts, numIterations, state, exitCode, history, simPhase, report, usedIds,
                   faults, answering, configExists, enq, aAcked, tAcked, aFailSeq,
                   tFailSeq>>

HelperSetItemsTimeSeries ==
    /\ ts' = [ts EXCEPT !.itemsInProgress = SetItemsInProgress(ts.queue)]
    /\ UNCHANGED <<asset, numIterations, state, exitCode, history, simPhase, report,
                   usedIds, faults, answering, configExists, enq, aAcked, tAcked,
                   aFailSeq, tFailSeq>>

\* Helper.removeProcessedItemsFromQueue(queue, itemsInProgress, ...)
HelperRemoveAsset ==
    /\ asset' = [asset EXCEPT
                   !.queue = RemoveProcessedItemsFromQueue(@, asset.itemsInProgress)]
    /\ UNCHANGED <<ts, numIterations, state, exitCode, history, simPhase, report, usedIds,
                   faults, answering, configExists, enq, aAcked, tAcked, aFailSeq,
                   tFailSeq>>

HelperRemoveTimeSeries ==
    /\ ts' = [ts EXCEPT !.queue = RemoveProcessedItemsFromQueue(@, ts.itemsInProgress)]
    /\ UNCHANGED <<asset, numIterations, state, exitCode, history, simPhase, report,
                   usedIds, faults, answering, configExists, enq, aAcked, tAcked,
                   aFailSeq, tFailSeq>>

NextHelper ==
    \/ HelperPushAsset
    \/ HelperPushTimeSeries
    \/ HelperSetItemsAsset
    \/ HelperSetItemsTimeSeries
    \/ HelperRemoveAsset
    \/ HelperRemoveTimeSeries

HelperSpec == InitHelper /\ [][NextHelper]_vars

\* the sinks answer, timers expire, token acquisitions return and the tick loop
\* runs; faults are never forced
Fairness ==
    /\ WF_vars(Startup)
    /\ WF_vars(RunSimulationStart)
    /\ WF_vars(RunSimulation)
    /\ WF_vars(AssetResponse)
    /\ WF_vars(AssetTimer)
    /\ WF_vars(AssetTokenDone)
    /\ WF_vars(TimeSeriesEvent)
    /\ WF_vars(TimeSeriesResume)
    /\ WF_vars(TimeSeriesTimer)
    /\ WF_vars(TimeSeriesTokenDone)

FairSpec == Spec /\ Fairness

OneSinkSpec == InitOneSink /\ [][Next]_vars

FairOneSinkSpec == OneSinkSpec /\ Fairness

\* the peer closes the open websocket id and no error event is raised
TimeSeriesPeerClose ==
    /\ "timeSeries" \in answering
    /\ faults < MaxFaults
    /\ \E id \in DOMAIN ts.sockets :
          /\ ts.sockets[id].state = "open"
          /\ ts' = WsOnClose(ts, id)
    /\ faults' = faults + 1
    /\ UNCHANGED <<asset, numIterations, state, exitCode, history, simPhase, report,
                   usedIds, answering, configExists, enq, aAcked, tAcked, aFailSeq,
                   tFailSeq>>

\* the simulator with a peer that may also drop the connection silently
NextClose == Next \/ TimeSeriesPeerClose

OneSinkCloseSpec == InitOneSink /\ [][NextClose]_vars

FairOneSinkCloseSpec == OneSinkCloseSpec /\ Fairness

\* only the simulator runs for sure: the module body, the startup token
\* acquisition and the process.nextTick of the tick loop; the sinks, the retry
\* timers and the token refreshes may take for ever
TickFairness ==
    /\ WF_vars(Startup)
    /\ WF_vars(RunSimulationStart)
    /\ WF_vars(RunSimulation)

TickFairOneSinkSpec == OneSinkSpec /\ TickFairness

----------------------------------------------------------------------------
(* Properties *)

Ids(seq) == {seq[i].key : i \in 1..Len(seq)}

IsPrefix(a, b) == Len(a) <= Len(b) /\ SubSeq(b, 1, Len(a)) = a

\* messages sent on some live websocket and not yet acknowledged
TimeSeriesUnacked ==
    {<<id, j>> : id \in DOMAIN ts.sockets, j \in 1..MAX_NODES_TO_QUEUE_PER_SEND + NUM_ITERATIONS}
        \cap {x \in (DOMAIN ts.sockets) \X (1..MAX_NODES_TO_QUEUE_PER_SEND + NUM_ITERATIONS) :
                 x[2] <= Len(ts.sockets[x[1]].sent)}

\* C1: the asset queue never has more than one POST outstanding
C1_AssetAtMostOnePost == Cardinality(asset.posts) <= 1

\* C2: the time series queue never has more than one batch awaiting its
\* acknowledgement, nor more than one websocket being opened or open
C2_TimeSeriesSingleFlight ==
    /\ Cardinality(DOMAIN ts.sockets) <= 1
    /\ Cardinality(TimeSeriesUnacked) <= 1

\* C2 witness: after a socket error, a retry has a batch awaiting acknowledgement
\* on a new websocket while a later node waits in the queue
C2_Witness ==
    /\ tFailSeq >= 0
    /\ Cardinality(TimeSeriesUnacked) = 1
    /\ Len(ts.queue) > Len(ts.itemsInProgress)

\* C3: in both queues the nodes removed so far are exactly the nodes of the
\* transmissions acknowledged so far
C3_RemovedIffAcknowledged ==
    /\ Ids(AssetEnq) \ Ids(asset.queue) = Ids(aAcked)
    /\ Ids(TimeSeriesEnq) \ Ids(ts.queue) = Ids(tAcked)

\* the time series half of C3
C3_TimeSeriesHalf == Ids(TimeSeriesEnq) \ Ids(ts.queue) = Ids(tAcked)

AssetFailStep == "asset" \in answering /\ \E p \in asset.posts : AssetPostFail(p)

TimeSeriesErrorStep ==
    "timeSeries" \in answering /\ \E id \in DOMAIN ts.sockets : TimeSeriesError(id)

\* C4: a failed transmission leaves the queue, the in-progress set, the counters
\* and the token as they were
C4_FailureKeepsQueue ==
    [][(AssetFailStep \/ TimeSeriesErrorStep) =>
          /\ asset'.queue = asset.queue
          /\ asset'.totSent = asset.totSent
          /\ asset'.itemsInProgress = asset.itemsInProgress
          /\ asset'.token = asset.token
          /\ ts'.queue = ts.queue
          /\ ts'.totSent = ts.totSent
          /\ ts'.itemsInProgress = ts.itemsInProgress
          /\ ts'.token = ts.token]_vars

\* C4 witness: a websocket carrying a batch has reported an error while a later
\* node waits in the queue, and the backoff timer is pending
C4_Witness ==
    /\ tFailSeq >= 0
    /\ ts.timers > 0
    /\ ts.msgSeq > 0
    /\ Len(ts.queue) >= 2

\* C5: the nodes of the acknowledged transmissions, in acknowledgement order,
\* are the nodes enqueued, in enqueue order
C5_AckOrderIsEnqueueOrder ==
    /\ IsPrefix(aAcked, AssetEnq)
    /\ IsPrefix(tAcked, TimeSeriesEnq)

\* the time series half of C5
C5_TimeSeriesHalf == IsPrefix(tAcked, TimeSeriesEnq)

\* ids that can be handed out in one run
AllIds == 1..((Cardinality(AlertKeys) + 1) * MAX_NUM_SENDS_PER_KEY)

\* node i waits in the queue of a sink that answers
Pending(i) ==
    \/ "asset" \in answering /\ i \in Ids(asset.queue)
    \/ "timeSeries" \in answering /\ i \in Ids(ts.queue)

\* node i was enqueued and is in no queue any more
Removed(i) == i \in Ids(enq) /\ i \notin Ids(asset.queue) \cup Ids(ts.queue)

Count(tot, key) == IF key \in DOMAIN tot THEN tot[key] ELSE 0

EnqueuedFor(key) == Len(SelectSeq(enq, LAMBDA n : n.data.key = key))

\* C7: the counters of the completion report are the numbers of nodes enqueued
C7_ReportEqualsEnqueued ==
    report.emitted =>
        /\ report.timeSeries = EnqueuedFor(TimeSeriesKey)
        /\ \A k \in AlertKeys : Count(report.asset, k) = EnqueuedFor(k)

\* the time series half of C7
C7_TimeSeriesHalf == report.emitted => report.timeSeries = EnqueuedFor(TimeSeriesKey)

\* a step in which the asset service sends a POST
AssetStarts == asset'.postSeq > asset.postSeq

\* a step in which the time series service creates a websocket or sends a message
TimeSeriesStarts == ts'.wsSeq > ts.wsSeq \/ ts'.msgSeq > ts.msgSeq

\* C8: while the backoff timer of a failed transmission is pending, the queue
\* starts no transmission
C8_NoStartDuringBackoff ==
    [][/\ asset.timers > 0 => ~AssetStarts
       /\ ts.timers > 0 => ~TimeSeriesStarts]_vars

\* the time series half of C8
C8_TimeSeriesHalf == [][ts.timers > 0 => ~TimeSeriesStarts]_vars

\* C9: a transmission started after a failure carries a token requested after
\* that failure
C9_FreshTokenAfterFailure ==
    [][/\ \A p \in asset'.posts \ asset.posts : p.token.req > aFailSeq
       /\ \A id \in DOMAIN ts'.sockets \ DOMAIN ts.sockets :
             ts'.sockets[id].token.req > tFailSeq]_vars

\* the two halves of C9
C9_AssetHalf == [][\A p \in asset'.posts \ asset.posts : p.token.req > aFailSeq]_vars

C9_TimeSeriesHalf ==
    [][\A id \in DOMAIN ts'.sockets \ DOMAIN ts.sockets :
          ts'.sockets[id].token.req > tFailSeq]_vars

\* no POST is outstanding and no retry of the asset queue is pending
AssetQuiet == asset.posts = {} /\ asset.timers = 0 /\ asset.tokenReqs = {}

\* no websocket carries or waits to carry a batch, and no retry is pending
TimeSeriesQuiet ==
    /\ DOMAIN ts.sockets = {}
    /\ Len(ts.resumes) = 0
    /\ ts.timers = 0
    /\ ts.tokenReqs = {}

\* C10: isFinished() is true exactly when the queue is empty, no transmission is
\* outstanding and no retry is pending
C10_IsFinishedExact ==
    /\ AssetIsFinished(asset) <=> (Len(asset.queue) = 0 /\ AssetQuiet)
    /\ TimeSeriesIsFinished(ts) <=> (Len(ts.queue) = 0 /\ TimeSeriesQuiet)

\* parts of C10
C10_AssetNoOutstanding == AssetIsFinished(asset) => asset.posts = {}

C10_TimeSeriesNoOutstanding ==
    TimeSeriesIsFinished(ts) => DOMAIN ts.sockets = {} /\ Len(ts.resumes) = 0

C10_TimeSeriesHalf == TimeSeriesIsFinished(ts) <=> (Len(ts.queue) = 0 /\ TimeSeriesQuiet)

\* a step in which finishSimulation logs the completion report
EmitStep == ~report.emitted /\ report'.emitted

\* C11: the completion report is emitted at most once, after the last tick, and
\* only when both queues are empty, nothing is awaiting an answer and every node
\* enqueued has been acknowledged
C11_ReportOnceWhenDrained ==
    [][/\ report.emitted => report' = report
       /\ EmitStep =>
             /\ numIterations = NUM_ITERATIONS
             /\ Len(asset.queue) = 0 /\ Len(ts.queue) = 0
             /\ asset.posts = {} /\ TimeSeriesUnacked = {}
             /\ Ids(enq) = Ids(aAcked) \cup Ids(tAcked)]_vars

\* parts of C11: the report is emitted at most once, after the last tick, when
\* both services say they are finished
C11_OnceAfterLastTick ==
    [][/\ report.emitted => report' = report
       /\ EmitStep =>
             /\ numIterations = NUM_ITERATIONS
             /\ AssetIsFinished(asset) /\ TimeSeriesIsFinished(ts)]_vars

\* the time series queue is drained and acknowledged when the report is emitted
C11_TimeSeriesHalf ==
    [][EmitStep =>
          /\ Len(ts.queue) = 0 /\ TimeSeriesUnacked = {}
          /\ Ids(TimeSeriesEnq) = Ids(tAcked)]_vars

\* the asset queue has nothing awaiting an answer when the report is emitted
C11_AssetHalf ==
    [][EmitStep => asset.posts = {} /\ Ids(AssetEnq) = Ids(aAcked)]_vars

Keys == AlertKeys \cup {TimeSeriesKey}

\* the nodes enqueued for a key, in enqueue order
EnqueuedSeq(key) == SelectSeq(enq, LAMBDA n : n.data.key = key)

NumSends(key) == IF key \in DOMAIN history THEN history[key].numSends ELSE 0

\* C12: for every key, history[key].numSends and the number of nodes ever
\* enqueued for the key are at most MAX_NUM_SENDS_PER_KEY
C12_SamplingBound ==
    \A k \in Keys :
        /\ NumSends(k) <= MAX_NUM_SENDS_PER_KEY
        /\ EnqueuedFor(k) <= MAX_NUM_SENDS_PER_KEY

\* C12 witness: the time series key has been sent MAX_NUM_SENDS_PER_KEY times and
\* was offered again later, an interval after its last send
C12_Witness ==
    /\ NumSends(TimeSeriesKey) = MAX_NUM_SENDS_PER_KEY
    /\ numIterations >= history[TimeSeriesKey].prevTimeSent + SEND_INTERVAL

\* C13: for every key the times of the nodes enqueued are strictly increasing,
\* and two consecutive ones are at least SEND_INTERVAL apart
C13_SamplingMonotonic ==
    \A k \in Keys :
        \A i \in 1..Len(EnqueuedSeq(k)) - 1 :
            /\ EnqueuedSeq(k)[i].data.time < EnqueuedSeq(k)[i + 1].data.time
            /\ EnqueuedSeq(k)[i + 1].data.time - EnqueuedSeq(k)[i].data.time >= SEND_INTERVAL

\* C13 witness: the state was offered at every tick; the offer one tick after the
\* first send was held back and the second node went out SEND_INTERVAL later, and
\* an alert key has two nodes too
C13_Witness ==
    /\ SEND_INTERVAL > 1
    /\ Len(EnqueuedSeq(TimeSeriesKey)) = 2
    /\ EnqueuedSeq(TimeSeriesKey)[2].data.time = EnqueuedSeq(TimeSeriesKey)[1].data.time + SEND_INTERVAL
    /\ Len(EnqueuedSeq("pressure")) = 2

\* C14: in every state (every state is one that the next callback observes),
\* history[key].numSends is the number of nodes pushed for the key,
\* history[key].prevTimeSent is the time of the last one, and the nodes in each
\* queue are nodes pushed for the keys of that queue
C14_SamplingAtomic ==
    /\ \A k \in Keys :
          /\ NumSends(k) = EnqueuedFor(k)
          /\ k \in DOMAIN history =>
                history[k].prevTimeSent = EnqueuedSeq(k)[Len(EnqueuedSeq(k))].data.time
    /\ Ids(asset.queue) \subseteq Ids(AssetEnq)
    /\ Ids(ts.queue) \subseteq Ids(TimeSeriesEnq)

\* C14 witness: network callbacks have run between the pushes of a key: a node
\* was acknowledged or failed before the second node of the same key was pushed
C14_Witness ==
    /\ NumSends(TimeSeriesKey) = 2 /\ NumSends("pressure") = 2
    /\ \/ Len(tAcked) > 0 /\ tFailSeq >= 0 /\ Len(ts.queue) > 0
       \/ Len(aAcked) > 0 /\ aFailSeq >= 0 /\ Len(asset.queue) > 0

\* the offers of the time series key made so far that met the interval gate,
\* had every earlier one been sent: ticks 1, 1 + SEND_INTERVAL, ...
SpacedOffers == IF numIterations = 0 THEN 0 ELSE (numIterations - 1) \div SEND_INTERVAL + 1

\* a tick of the loop
TickStep == numIterations' = numIterations + 1

\* C15: of n offers of a key that meet the interval gate exactly
\* min(n, MAX_NUM_SENDS_PER_KEY) are enqueued, and a suppressed offer leaves the
\* history of the key and its nodes as they were
C15_MinOfOffersAndMax ==
    /\ [](EnqueuedFor(TimeSeriesKey) = Min(SpacedOffers, MAX_NUM_SENDS_PER_KEY))
    /\ [][TickStep =>
            \A k \in DOMAIN history :
                ~ShouldSend(history, k, state'.time) =>
                    history'[k] = history[k] /\ EnqueuedFor(k)' = EnqueuedFor(k)]_vars

\* C15 witness: more spaced offers than MAX_NUM_SENDS_PER_KEY have been made
C15_Witness ==
    /\ SpacedOffers > MAX_NUM_SENDS_PER_KEY
    /\ EnqueuedFor(TimeSeriesKey) = MAX_NUM_SENDS_PER_KEY
    /\ numIterations >= history[TimeSeriesKey].prevTimeSent + SEND_INTERVAL

\* the completion monitor has been started
MonitorStarted == simPhase \in {"polling", "complete"}

\* C16: whatever the sinks do, the loop is never held up: while the simulation
\* runs the next call of runSimulation can always be taken, the loop makes
\* exactly NUM_ITERATIONS ticks and then starts the completion monitor
C16_ProducerNeverBlocked ==
    /\ [](simPhase = "running" => ENABLED RunSimulation)
    /\ [](numIterations <= NUM_ITERATIONS)
    /\ [](MonitorStarted => numIterations = NUM_ITERATIONS)
    /\ (configExists => <>MonitorStarted)

\* C16 witness: the monitor has been started although the first POST and the
\* first websocket never got an answer
C16_Witness ==
    /\ MonitorStarted
    /\ numIterations = NUM_ITERATIONS
    /\ \/ /\ "asset" \notin answering
          /\ Len(asset.queue) > 0 /\ \E p \in asset.posts : p.seq = 1
       \/ /\ "timeSeries" \notin answering
          /\ Len(ts.queue) > 0 /\ 1 \in DOMAIN ts.sockets

\* the sentinel returned by the acquisition at startup
StartupSentinel == GetPredixToken(0, FALSE)

\* C17: no POST is issued and no websocket is opened with the sentinel of the
\* startup acquisition as bearer token
C17_NoTrafficWithStartupSentinel ==
    /\ \A p \in asset.posts : p.token # StartupSentinel
    /\ \A id \in DOMAIN ts.sockets : ts.sockets[id].token # StartupSentinel

\* C18: without the configuration file the simulator exits with code 1 before any
\* tick, token acquisition or sink traffic; with it the run starts and the
\* process does not exit
C18_ExitWithoutConfig ==
    /\ ~configExists =>
          /\ simPhase \in {"boot", "exited"}
          /\ simPhase = "exited" => exitCode = 1
          /\ numIterations = 0 /\ Len(enq) = 0
          /\ asset.postSeq = 0 /\ ts.wsSeq = 0
          /\ asset.tokSeq = 0 /\ ts.tokSeq = 0
    /\ configExists => simPhase # "exited" /\ exitCode = NotExited
    /\ simPhase = "boot" => exitCode = NotExited

\* C18 witness: the file was missing and the process has exited
C18_Witness == ~configExists /\ simPhase = "exited" /\ exitCode = 1

\* a token refresh of a retry ends with the sentinel
AssetTokenFails(r) == AssetToken(r, FALSE)

TimeSeriesTokenFails(r) == TimeSeriesToken(r, FALSE)

\* C19: getPredixToken always returns, a token or the sentinel, and the callback
\* that awaited it goes on: at startup the services are constructed and the
\* first tick runs, and after a failed refresh the retry is issued with the
\* sentinel (unless a transmission is in progress already)
C19_TokenFailureIsAValue ==
    [][/\ RunSimulationStart =>
             /\ asset'.token = ts'.token
             /\ asset'.token \in {GetPredixToken(0, TRUE), GetPredixToken(0, FALSE)}
             /\ numIterations' = 1
       /\ \A r \in asset.tokenReqs :
             AssetTokenFails(r) =>
                 /\ asset'.token = GetPredixToken(r, FALSE)
                 /\ r \notin asset'.tokenReqs
                 /\ Len(asset.queue) > 0 => asset'.isOperationInProgress
                 /\ Len(asset.queue) > 0 /\ ~asset.isOperationInProgress =>
                       \E p \in asset'.posts \ asset.posts : p.token = asset'.token
       /\ \A r \in ts.tokenReqs :
             TimeSeriesTokenFails(r) =>
                 /\ ts'.token = GetPredixToken(r, FALSE)
                 /\ r \notin ts'.tokenReqs
                 /\ Len(ts.queue) > 0 => ts'.isOperationInProgress
                 /\ Len(ts.queue) > 0 /\ ~ts.isOperationInProgress =>
                       \E id \in DOMAIN ts'.sockets \ DOMAIN ts.sockets :
                           ts'.sockets[id].token = ts'.token]_vars

\* C19 witness: a retry is on its way with the sentinel of a failed refresh
C19_Witness ==
    \/ \E p \in asset.posts : p.token.req > 0 /\ ~p.token.ok
    \/ \E id \in DOMAIN ts.sockets : ts.sockets[id].token.req > 0 /\ ~ts.sockets[id].token.ok

\* C20: the total mass, the divisor of the acceleration, is positive
C20_TotalMassPositive == Mass(state) > 0

\* C20 witness: the tender has run out (the Fireman overdraws it once), the fire
\* chamber is empty, and the mass is at its minimum
C20_Witness ==
    /\ state.fuelMassInTender < 0
    /\ state.fuelMassInFireChamber = 0
    /\ Mass(state) = LOCOMOTIVE_OWN_MASS - FUEL_ADD_AMT

\* the state after n ticks of the pipeline
RECURSIVE StateAfter(_)
StateAfter(n) == IF n = 0 THEN InitialState ELSE TransferFunctions(StateAfter(n - 1))

\* C21: the state is a function of the number of ticks made: whatever the sinks
\* answered, whenever the timers fired and however the callbacks interleaved, after
\* n ticks it is the n-fold application of the pipeline to the initial state
C21_StateDependsOnTicksOnly == state = StateAfter(numIterations)

\* C21 witness: the run is over, a transmission failed and was retried, batches
\* were acknowledged, and the locomotive has moved
C21_Witness ==
    /\ numIterations = NUM_ITERATIONS
    /\ faults > 0
    /\ Len(aAcked) + Len(tAcked) > 0
    /\ state.distance > 0

\* C23: the fuel in the fire chamber never exceeds
\* MAX_FUEL_MASS_IN_FIRE_CHAMBER
C23_FireChamberWithinMax == state.fuelMassInFireChamber <= MAX_FUEL_MASS_IN_FIRE_CHAMBER

\* fields of the state other than those in fs are the same after the step
Others(fs) == \A f \in DOMAIN state \ fs : state'[f] = state[f]

Force(st) == (X1 * st.pressure) - (X2 * st.speed)

\* the dead zone of Movement: no speed, and less than X3 of acceleration
DeadZone(st) == st.speed = 0 /\ Abs(Force(st)) < X3 * Mass(st)

Violates(st, k) ==
    IF k = "pressure" THEN st.pressure > MAX_ALLOWED_PRESSURE
    ELSE IF k = "speed" THEN st.speed > MAX_ALLOWED_SPEED
    ELSE st.fuelMassInTender < MIN_ALLOWED_FUEL_MASS_IN_TENDER

\* the nodes pushed in this step
NewNodes == SubSeq(enq', Len(enq) + 1, Len(enq'))

NewFor(k) == SelectSeq(NewNodes, LAMBDA n : n.data.key = k)

\* C30: at a tick an alert of key k is enqueued, once, exactly when the state that
\* the tick produced violates the threshold of k strictly and the gate of k is
\* open in the history as it was before the tick, whatever was sent for the
\* other keys in the same tick; the alert carries the value and the time of that
\* state and goes to the asset queue, and the history of a key changes only by a
\* send of that key
C30_AlertOnlyOnStrictViolation ==
    [][TickStep =>
          \A k \in AlertKeys :
              /\ Len(NewFor(k)) = IF Violates(state', k) /\ ShouldSend(history, k, state'.time)
                                  THEN 1 ELSE 0
              /\ \A i \in 1..Len(NewFor(k)) :
                    /\ NewFor(k)[i].data.val = state'[k]
                    /\ NewFor(k)[i].data.time = state'.time
                    /\ NewFor(k)[i].key \in Ids(asset'.queue)
                    /\ NewFor(k)[i].key \notin Ids(ts'.queue)
              /\ Len(NewFor(k)) = 0 =>
                    /\ k \in DOMAIN history' <=> k \in DOMAIN history
                    /\ k \in DOMAIN history => history'[k] = history[k]
              /\ Len(NewFor(k)) = 1 =>
                    history'[k] = UpdateHistory(history, k, state'.time)[k]]_vars

\* C30 witness: every threshold has raised an alert, the pressure alert twice, and
\* no alert was raised at the first tick, when the tender was exactly at its
\* minimum
C30_Witness ==
    /\ EnqueuedFor("pressure") = 2
    /\ EnqueuedFor("speed") >= 1
    /\ EnqueuedFor("fuelMassInTender") >= 1
    /\ StateAfter(1).fuelMassInTender = MIN_ALLOWED_FUEL_MASS_IN_TENDER
    /\ EnqueuedSeq("fuelMassInTender")[1].data.time > DT

\* C22: when the sink answers, the time series queue does not stay in progress
\* for ever: after a dropped connection, with or without an error event, the flag
\* is cleared again and the queue is drained
C22_DroppedConnectionRecovered ==
    /\ []<>("timeSeries" \notin answering \/ ~ts.isOperationInProgress)
    /\ []<>("timeSeries" \notin answering \/ Len(ts.queue) = 0)

\* a transmission of the asset queue is outstanding or on its way
AssetWakeUpPending == asset.posts # {} \/ asset.timers > 0 \/ asset.tokenReqs # {}

\* a transmission of the time series queue is outstanding or on its way
TimeSeriesWakeUpPending ==
    \/ \E id \in DOMAIN ts.sockets :
          ts.sockets[id].state = "connecting" \/ Len(ts.sockets[id].sent) > 0
    \/ Len(ts.resumes) > 0
    \/ ts.timers > 0
    \/ ts.tokenReqs # {}

\* C26: a queue that is not empty has a transmission outstanding, or a retry
\* timer or a token refresh pending that leads to a drain; a failed transmission
\* always leaves a retry timer behind
C26_NoLostWakeUp ==
    /\ Len(asset.queue) > 0 => AssetWakeUpPending
    /\ Len(ts.queue) > 0 => TimeSeriesWakeUpPending

\* the asset half of C26
C26_AssetHalf == Len(asset.queue) > 0 => AssetWakeUpPending

\* C24: a tick that finds the in-progress flag of a service set hands its nodes
\* to the service, and every drain it invokes returns at once: the nodes are
\* appended to the queue and nothing else of the service changes (in-progress
\* set, flag, counters, token, connection, requests and messages sent)
C24_DrainSingleFlight ==
    [][numIterations' # numIterations =>
         /\ asset.isOperationInProgress =>
               /\ asset' = [asset EXCEPT !.queue = asset'.queue]
               /\ IsPrefix(asset.queue, asset'.queue)
         /\ ts.isOperationInProgress =>
               /\ ts' = [ts EXCEPT !.queue = ts'.queue]
               /\ IsPrefix(ts.queue, ts'.queue)]_vars

\* both services hold a batch smaller than the maximum while their queues hold
\* more: nodes were enqueued, and the drain invoked, with the flag set
C24_Witness ==
    /\ asset.isOperationInProgress
    /\ Len(asset.itemsInProgress) < MAX_NODES_TO_QUEUE_PER_SEND
    /\ Len(asset.queue) > Len(asset.itemsInProgress)
    /\ ts.isOperationInProgress
    /\ Len(ts.itemsInProgress) < MAX_NODES_TO_QUEUE_PER_SEND
    /\ Len(ts.queue) > Len(ts.itemsInProgress)

\* items are the oldest nodes of queue, in queue order, as many as one operation
\* may send
IsBatchOf(items, queue) ==
    /\ Len(items) = Min(Len(queue), MAX_NODES_TO_QUEUE_PER_SEND)
    /\ \A i \in 1..Len(items) : items[i] = queue[i]

\* the queue that the drain of this step found: a tick hands its nodes over one
\* by one, and the drain that starts a transmission is the one invoked with the
\* first of them; every later one finds the flag set
DrainedQueue(old, new) ==
    IF numIterations' # numIterations THEN SubSeq(new, 1, Len(old) + 1) ELSE new

\* the drain of the asset queue in this step started a POST
AssetTransmissionStarted == asset'.postSeq > asset.postSeq

\* the drain of the time series queue in this step started a transmission: it
\* created a websocket, or sent on the open one
TimeSeriesTransmissionStarted ==
    \/ ts'.wsSeq > ts.wsSeq
    \/ ts'.msgSeq > ts.msgSeq /\ ts'.resumes = ts.resumes

\* the step is a retry callback resuming after its await of getPredixToken, with
\* the flag clear: it does nothing but store the token and drain
AssetRetryDrain ==
    /\ asset'.tokenReqs # asset.tokenReqs
    /\ asset'.tokenReqs \subseteq asset.tokenReqs
    /\ ~asset.isOperationInProgress

TimeSeriesRetryDrain ==
    /\ ts'.tokenReqs # ts.tokenReqs
    /\ ts'.tokenReqs \subseteq ts.tokenReqs
    /\ ~ts.isOperationInProgress

\* C25: when a drain starts a transmission, the in-progress set is the first
\* min(queue length, MAX_NODES_TO_QUEUE_PER_SEND) nodes of the queue in queue
\* order, it is what is transmitted, and the extraction leaves the queue as it
\* was; a drain on an empty queue clears the flag and starts no transmission
C25_BatchExtraction ==
    [][/\ AssetTransmissionStarted =>
             /\ asset'.isOperationInProgress
             /\ IsBatchOf(asset'.itemsInProgress, DrainedQueue(asset.queue, asset'.queue))
             /\ \E p \in asset'.posts :
                   p.seq = asset'.postSeq /\ p.body = asset'.itemsInProgress
       /\ TimeSeriesTransmissionStarted =>
             /\ ts'.isOperationInProgress
             /\ IsBatchOf(ts'.itemsInProgress, DrainedQueue(ts.queue, ts'.queue))
             /\ ts'.wsSeq > ts.wsSeq =>
                   ts'.sockets[ts'.wsSeq].waiter = ts'.itemsInProgress
             /\ ts'.wsSeq = ts.wsSeq =>
                   ts'.sockets[ts'.ws].sent[Len(ts'.sockets[ts'.ws].sent)]
                       = ts'.itemsInProgress
       /\ AssetRetryDrain =>
             /\ asset'.queue = asset.queue
             /\ Len(asset.queue) = 0 =>
                   /\ ~asset'.isOperationInProgress
                   /\ asset'.itemsInProgress = <<>>
                   /\ asset'.postSeq = asset.postSeq
       /\ TimeSeriesRetryDrain =>
             /\ ts'.queue = ts.queue
             /\ Len(ts.queue) = 0 =>
                   /\ ~ts'.isOperationInProgress
                   /\ ts'.itemsInProgress = <<>>
                   /\ ts'.wsSeq = ts.wsSeq
                   /\ ts'.msgSeq = ts.msgSeq]_vars

\* a POST is outstanding whose batch is full while the queue holds more nodes
C25_Witness ==
    /\ asset.isOperationInProgress
    /\ asset.posts # {}
    /\ Len(asset.itemsInProgress) = MAX_NODES_TO_QUEUE_PER_SEND
    /\ Len(asset.queue) > MAX_NODES_TO_QUEUE_PER_SEND

\* a retry callback drained an empty asset queue
C25_EmptyDrainReached ==
    /\ asset.postSeq > 0
    /\ asset.itemsInProgress = <<>>
    /\ ~asset.isOperationInProgress

\* ws.onmessage ran in this step
TimeSeriesAckStep == tAcked' # tAcked

\* the time series service holds no connection
NoConnection(s) == s.ws = Undefined /\ DOMAIN s.sockets = {}

\* C31: an acknowledgement that leaves the queue non-empty sends the next batch
\* on the same open websocket and creates none; an acknowledgement that leaves
\* the queue empty closes and forgets the websocket; a finished time series
\* service holds no websocket, and the next enqueue creates one
C31_ConnectionLifecycle ==
    [][/\ TimeSeriesAckStep /\ Len(ts'.queue) > 0 =>
             /\ ts'.wsSeq = ts.wsSeq
             /\ ts'.ws = ts.ws
             /\ ts'.ws \in DOMAIN ts'.sockets
             /\ ts'.sockets[ts'.ws].state = "open"
             /\ ts'.sockets[ts'.ws].sent = <<ts'.itemsInProgress>>
             /\ ts'.msgSeq = ts.msgSeq + 1
       /\ TimeSeriesAckStep /\ Len(ts'.queue) = 0 =>
             /\ NoConnection(ts')
             /\ ts'.wsSeq = ts.wsSeq
             /\ ts'.msgSeq = ts.msgSeq
       /\ TimeSeriesIsFinished(ts') => NoConnection(ts')
       /\ TimeSeriesIsFinished(ts) /\ Len(ts'.queue) > Len(ts.queue) =>
             /\ ts'.wsSeq = ts.wsSeq + 1
             /\ ts'.ws = ts'.wsSeq
             /\ ts'.sockets[ts'.ws].state = "connecting"]_vars

\* two batches went over the first websocket, which was closed when the second
\* acknowledgement emptied the queue
C31_Witness ==
    /\ ts.wsSeq = 1
    /\ ts.msgSeq = 2
    /\ ts.totSent = 2
    /\ TimeSeriesIsFinished(ts)
    /\ NoConnection(ts)

\* the websockets created so far that reported an error or were closed
DeadSockets(s) == (1..s.wsSeq) \ DOMAIN s.sockets

\* C32: a websocket error discards the websocket and sends nothing; a batch is
\* only ever sent on the current websocket, which is open and has reported no
\* error; the drain of the retry callback creates a new websocket with the token
\* of that moment and sends nothing before it is open
C32_ErrorDiscardsConnection ==
    [][/\ TimeSeriesErrorStep =>
             /\ ts'.ws = Undefined
             /\ \E id \in DOMAIN ts.sockets : DOMAIN ts'.sockets = DOMAIN ts.sockets \ {id}
             /\ ts'.wsSeq = ts.wsSeq
             /\ ts'.msgSeq = ts.msgSeq
       /\ ts'.msgSeq > ts.msgSeq =>
             /\ ts'.ws # Undefined
             /\ ts'.ws \notin DeadSockets(ts')
             /\ ts'.sockets[ts'.ws].state = "open"
             /\ Len(ts'.sockets[ts'.ws].sent) > 0
             /\ \A id \in DOMAIN ts'.sockets \ {ts'.ws} :
                   id \in DOMAIN ts.sockets /\ ts'.sockets[id].sent = ts.sockets[id].sent
       /\ DeadSockets(ts) \subseteq DeadSockets(ts')
       /\ TimeSeriesRetryDrain /\ Len(ts.queue) > 0 =>
             /\ ts'.wsSeq = ts.wsSeq + 1
             /\ ts'.ws = ts'.wsSeq
             /\ ts'.sockets[ts'.ws].state = "connecting"
             /\ ts'.sockets[ts'.ws].token = ts'.token
             /\ ts'.msgSeq = ts.msgSeq]_vars

\* after an error a batch was sent on a later websocket, which is open
C32_Witness ==
    /\ tFailSeq # -1
    /\ 1 \in DeadSockets(ts)
    /\ ts.ws # Undefined
    /\ ts.ws \in DOMAIN ts.sockets
    /\ ts.sockets[ts.ws].state = "open"
    /\ Len(ts.sockets[ts.ws].sent) > 0

\* the positions of queue whose id is not the id of an in-progress item
KeptPositions(queue, items) ==
    {i \in 1..Len(queue) : \A j \in 1..Len(items) : queue[i].key # items[j].key}

\* new is queue without the nodes whose id is the id of an in-progress item, the
\* others in their order
IdentityRemoval(queue, items, new) ==
    LET kept == KeptPositions(queue, items) IN
    /\ Len(new) = Cardinality(kept)
    /\ \A i \in kept : new[Cardinality({j \in kept : j <= i})] = queue[i]

\* the ids of the nodes of both queues are pairwise distinct
DistinctIds(a, t) ==
    LET all == a.queue \o t.queue IN
    \A i, j \in 1..Len(all) : all[i].key = all[j].key => i = j

\* C33: getId hands out an id that it never handed out before, also when
\* generateId repeats itself, so the ids of the nodes of both queues are pairwise
\* distinct; removeProcessedItemsFromQueue removes exactly the nodes whose id is
\* the id of an in-progress item and keeps the others, equal payload or not, in
\* their order
C33_RemovalByIdentity ==
    [][/\ usedIds' # usedIds =>
             \E id \in Guids \ usedIds :
                /\ usedIds' = usedIds \cup {id}
                /\ \/ /\ Len(asset'.queue) = Len(asset.queue) + 1
                      /\ IsPrefix(asset.queue, asset'.queue)
                      /\ asset'.queue[Len(asset'.queue)].key = id
                      /\ ts' = ts
                   \/ /\ Len(ts'.queue) = Len(ts.queue) + 1
                      /\ IsPrefix(ts.queue, ts'.queue)
                      /\ ts'.queue[Len(ts'.queue)].key = id
                      /\ asset' = asset
       /\ DistinctIds(asset', ts')
       /\ Ids(asset'.queue) \cup Ids(ts'.queue) \subseteq usedIds'
       /\ HelperRemoveAsset =>
             IdentityRemoval(asset.queue, asset.itemsInProgress, asset'.queue)
       /\ HelperRemoveTimeSeries =>
             IdentityRemoval(ts.queue, ts.itemsInProgress, ts'.queue)]_vars

\* generateId repeated itself, and a node was removed from the asset queue while
\* a node with the same payload stayed
C33_Witness ==
    /\ faults > 0
    /\ \E i \in 1..Len(asset.itemsInProgress), j \in 1..Len(asset.queue) :
          /\ asset.itemsInProgress[i].key \notin Ids(asset.queue)
          /\ asset.queue[j].data = asset.itemsInProgress[i].data

\* the nodes of seq whose data is for key
NumWithKey(seq, key) == Cardinality({i \in 1..Len(seq) : seq[i].data.key = key})

\* the nodes of the transmission acknowledged in this step
AckedNow(old, new) == SubSeq(new, Len(old) + 1, Len(new))

\* the counters never decrease
C34_CountersNeverDecrease ==
    [][/\ \A k \in AlertKeys : Count(asset'.totSent, k) >= Count(asset.totSent, k)
       /\ ts'.totSent >= ts.totSent]_vars

\* the time series half of C34
C34_TimeSeriesHalf ==
    [][/\ ts'.totSent >= ts.totSent
       /\ tAcked' # tAcked =>
             ts'.totSent = ts.totSent + Len(AckedNow(tAcked, tAcked'))
       /\ tAcked' = tAcked => ts'.totSent = ts.totSent
       /\ ts'.totSent + Len(ts'.queue) = EnqueuedFor(TimeSeriesKey)']_vars

\* C34: the counters never decrease, an acknowledged transmission adds one per
\* node it contained (asset: to the counter of the node's key; time series: to
\* the total) and nothing else changes them, so for each queue and key the
\* count delivered plus the nodes in the queue is the number of nodes enqueued
C34_CounterConservation ==
    [][/\ \A k \in AlertKeys :
             /\ Count(asset'.totSent, k) >= Count(asset.totSent, k)
             /\ Count(asset'.totSent, k) =
                   Count(asset.totSent, k) + NumWithKey(AckedNow(aAcked, aAcked'), k)
             /\ Count(asset'.totSent, k) + NumWithKey(asset'.queue, k) = EnqueuedFor(k)'
       /\ ts'.totSent >= ts.totSent
       /\ ts'.totSent = ts.totSent + Len(AckedNow(tAcked, tAcked'))
       /\ ts'.totSent + Len(ts'.queue) = EnqueuedFor(TimeSeriesKey)']_vars

\* the seven fields of the state that are tracked as time series
TrackedFields == {"distance", "fuelMassBurning", "fuelMassInTender", "fuelMassInFireChamber",
                  "pressure", "speed", "time"}

\* the batches handed to a websocket: awaited by an opening one, or sent
TimeSeriesBatches ==
    {ts.sockets[id].waiter : id \in {i \in DOMAIN ts.sockets : ts.sockets[i].state = "connecting"}}
        \cup {ts.sockets[x[1]].sent[x[2]] : x \in TimeSeriesUnacked}

\* body has one series for each tracked field, each with one datapoint per node
\* of items, in their order: the node's time in thousandths and its value
SeriesOf(body, items) ==
    /\ Len(body) = Cardinality(TrackedFields)
    /\ \A f \in TrackedFields :
          \E i \in 1..Len(body) :
             /\ body[i].name = f
             /\ \A k \in 1..Len(body) : body[k].name = f => k = i
             /\ Len(body[i].datapoints) = Len(items)
             /\ \A j \in 1..Len(items) :
                   body[i].datapoints[j] = <<1000 * items[j].data.val.time,
                                             items[j].data.val[f]>>

\* C35: the body of every websocket message has exactly one series for each of
\* the seven tracked fields, each with exactly one datapoint per in-progress
\* node, in queue order, of the node's timestamp and its value of the field; the
\* body of every POST has exactly one element per in-progress node, in queue order
C35_MessageBody ==
    /\ \A items \in TimeSeriesBatches : SeriesOf(TimeSeriesBuildBody(items), items)
    /\ \A p \in asset.posts :
          LET body == AssetBuildBody(p.body) IN
          /\ Len(body) = Len(p.body)
          /\ \A j \in 1..Len(p.body) :
                /\ body[j].name = p.body[j].data.key
                /\ body[j].val = p.body[j].data.val
                /\ body[j].timestamp = 1000 * p.body[j].data.time

\* a websocket message with a full batch and a POST are outstanding
C35_Witness ==
    /\ \E items \in TimeSeriesBatches : Len(items) = MAX_NODES_TO_QUEUE_PER_SEND
    /\ asset.posts # {}

\* the most fuel the fire chamber ever holds: the Fireman adds FUEL_ADD_AMT only
\* to a chamber of at most MAX_FUEL_MASS_IN_FIRE_CHAMBER
ChamberCapacity == MAX_FUEL_MASS_IN_FIRE_CHAMBER + FUEL_ADD_AMT

\* the burning fuel is part of the fuel in the chamber, the chamber is within its
\* capacity, and the pressure is at most that of a chamber burning all of it
BurningWithinChamber(st) ==
    /\ st.fuelMassBurning <= st.fuelMassInFireChamber
    /\ st.fuelMassInFireChamber <= ChamberCapacity
    /\ st.pressure <= PRESSURE_MULTIPLIER * ChamberCapacity

\* C36: fuelMassBurning <= fuelMassInFireChamber and pressure <=
\* PRESSURE_MULTIPLIER * (MAX_FUEL_MASS_IN_FIRE_CHAMBER + FUEL_ADD_AMT) in every
\* state of the pipeline: they hold, with the capacity of the chamber, in the
\* initial state, and every process keeps them
C36_BurningWithinChamber ==
    /\ BurningWithinChamber(InitialState)
    /\ [][BurningWithinChamber(state) => BurningWithinChamber(state')]_vars

\* the Fire Chamber has just brought the pressure to its bound, with all the fuel
\* of the chamber burning
C36_Witness ==
    /\ simPhase = "Movement"
    /\ BurningWithinChamber(state)
    /\ state.pressure = PRESSURE_MULTIPLIER * ChamberCapacity
    /\ state.fuelMassBurning = state.fuelMassInFireChamber
    /\ state.fuelMassBurning > 0

\* C36 in the states that the simulator reaches from model.state
C36_Reached ==
    /\ state.fuelMassBurning <= state.fuelMassInFireChamber
    /\ state.pressure <= PRESSURE_MULTIPLIER * ChamberCapacity

\* C37: fuelMassInTender is never negative, whatever the number of ticks
C37_TenderNeverNegative == state.fuelMassInTender >= 0

\* the Fireman overdraws the tender by one transfer at most
C37_OverdrawnOnce == state.fuelMassInTender >= 0 - FUEL_ADD_AMT

\* the batches of the time series queue whose transmission is outstanding: handed
\* to a websocket, or about to be sent by a resuming processTimeSeriesData
TimeSeriesOutstanding ==
    TimeSeriesBatches \cup {ts.resumes[i] : i \in 1..Len(ts.resumes)}

\* the time series half of C38
C38_TimeSeriesHalf ==
    /\ \A items \in TimeSeriesOutstanding :
          /\ Ids(items) \subseteq Ids(ts.queue)
          /\ items = ts.itemsInProgress
    /\ Cardinality(TimeSeriesOutstanding) <= 1

\* C38: while a transmission is outstanding its nodes are still in the queue and
\* the module's in-progress set, which the success handler will use, is the set
\* that was transmitted; no node is in the in-progress sets of two outstanding
\* transmissions
C38_InProgressStable ==
    /\ \A p \in asset.posts :
          /\ Ids(p.body) \subseteq Ids(asset.queue)
          /\ p.body = asset.itemsInProgress
    /\ \A p, q \in asset.posts : p # q => Ids(p.body) \cap Ids(q.body) = {}
    /\ \A items \in TimeSeriesOutstanding :
          /\ Ids(items) \subseteq Ids(ts.queue)
          /\ items = ts.itemsInProgress
    /\ \A b, c \in TimeSeriesOutstanding : b # c => Ids(b) \cap Ids(c) = {}

\* C39: once the completion report is emitted nothing of either service happens
\* any more: no counter changes, no node is enqueued, and no transmission, retry
\* timer, token request or acknowledgement handler runs
C39_ReportIsFinal ==
    [][report.emitted => asset' = asset /\ ts' = ts /\ enq' = enq]_vars

\* after the report no counter changes
C39_CountersFinal ==
    [][report.emitted => asset'.totSent = asset.totSent /\ ts'.totSent = ts.totSent]_vars

\* after the report no node is enqueued
C39_NoEnqueue == [][report.emitted => enq' = enq]_vars

\* after the report nothing of the time series service runs
C39_TimeSeriesHalf == [][report.emitted => ts' = ts]_vars

\* the node as it was enqueued under the id of node n
Enqueued(n) == enq[CHOOSE i \in 1..Len(enq) : enq[i].key = n.key]

\* C40: the alerts ever enqueued have pairwise distinct (key, timestamp) pairs
\* and distinct uris; every transmission of a node, the first or a later one,
\* carries what buildBody makes of the node as it was enqueued: the same uri,
\* timestamp, name and value (asset), the same timestamp and value for each tag
\* (time series)
C40_RedeliveryIdempotent ==
    /\ \A i, j \in 1..Len(AssetEnq) :
          i # j =>
             /\ <<AssetEnq[i].data.key, Timestamp(AssetEnq[i].data.time)>>
                   # <<AssetEnq[j].data.key, Timestamp(AssetEnq[j].data.time)>>
             /\ AssetBuildBody(AssetEnq)[i].uri # AssetBuildBody(AssetEnq)[j].uri
    /\ \A p \in asset.posts :
          \A j \in 1..Len(p.body) :
             AssetBuildBody(p.body)[j] = AssetBuildBody(<<Enqueued(p.body[j])>>)[1]
    /\ \A items \in TimeSeriesOutstanding :
          \A j \in 1..Len(items), t \in 1..Len(Tags) :
             /\ TimeSeriesBuildBody(items)[t].name = Tags[t]
             /\ TimeSeriesBuildBody(items)[t].datapoints[j]
                   = TimeSeriesBuildBody(<<Enqueued(items[j])>>)[t].datapoints[1]

\* after a failed POST the first alert ever enqueued is in a later POST, and two
\* alerts of one key have been enqueued
C40_Witness ==
    /\ aFailSeq # -1
    /\ \E p \in asset.posts :
          /\ p.seq > 1
          /\ AssetEnq[1].key \in Ids(p.body)
    /\ \E i, j \in 1..Len(AssetEnq) : i # j /\ AssetEnq[i].data.key = AssetEnq[j].data.key

====
